---- MODULE Spec2Model ----
(***************************************************************************)
(* The retrying invoker of src/utils.py (retry_with_backoff and the        *)
(* wrapper it returns), modelled statement by statement.  One invocation   *)
(* of wrapper() is a sequential process whose position is pc; the wrapped  *)
(* operation func is an external collaborator, so each of its calls ends   *)
(* in a nondeterministically chosen return value or raised exception.      *)
(* Further specifications put several invocations side by side, nest       *)
(* wrappers, and run the decorated examples from main() of src/main.py.    *)
(***************************************************************************)
EXTENDS Integers, Sequences, FiniteSets, TLC

VARIABLES
    max_retries,  \* the max_retries the wrapper was built with
    pc,           \* the statement of wrapper() that runs next
    it,           \* the next index the iterator of range(max_retries) yields
    attempt,      \* the loop variable
    e,            \* the exception bound by "except Exception as e"
    wait_time,    \* the local wait_time
    calls,        \* history: how each call of func ended, in order
    printed,      \* history: the lines given to print()
    slept,        \* history: the durations given to time.sleep()
    log,          \* history: the order of attempts, notices, waits and the outcome
    result,       \* what wrapper() delivered to its caller
    self,         \* which invocation of wrapper() the variables above belong to
    frames,       \* the other invocations of wrapper() that have not ended for
                  \* their caller: of other threads, or of the wrappers around
    ended,        \* history: the invocations of inner wrappers that have ended
    nesting,      \* how many wrappers are around the operation
    pending,      \* what an inner wrapper delivered, until the wrapper around
                  \* it takes it as the end of its call of func
    mpc,          \* the statement of main() that runs next
    idx,          \* the position of main()'s loop in examples
    results,      \* main()'s dict results
    ran,          \* history: the examples main() has called, in order
    api,          \* history: how the set-up and the model API call of the
                  \* running example ended, one entry per run of its body
    summary,      \* the count main() prints in "Successfully ran X/8 examples"
    user_id,      \* the user_id given to UserProfile
    validated     \* how validate_user_id ended for it

\* the locals and the closure of one invocation of wrapper(), and its history
wrapper_vars ==
    <<max_retries, pc, it, attempt, e, wait_time, calls, printed, slept, log, result>>

call_vars == <<self, frames, ended, nesting, pending>>

main_vars == <<mpc, idx, results, ran, api, summary>>

profile_vars == <<user_id, validated>>

vars == <<wrapper_vars, call_vars, main_vars, profile_vars>>

----------------------------------------------------------------------------
(* Bounds of the model *)

\* the largest max_retries a wrapper is built with
MaxRetries == 4

\* the most invocations of one wrapper that exist side by side
MaxCalls == 2

\* the most wrappers put around one operation
MaxDepth == 3

\* how far below zero the max_retries of a wrapper goes
MaxBelowZero == 2

----------------------------------------------------------------------------
(* Values of the program *)

\* Python's None
None == "None"

\* def retry_with_backoff(func, max_retries=3)
DefaultMaxRetries == 3

\* mutant: the default counts the retries after the first attempt
BuiltWithDefaultRetries(args) ==
    IF args = << >> THEN DefaultMaxRetries + 1 ELSE args[1]

\* the max_retries of the closure of retry_with_backoff(func, *args): args is
\* empty, or holds the max_retries given
BuiltWith(args) == IF args = << >> THEN DefaultMaxRetries ELSE args[1]

\* what func may return (None: an example that caught its own error)
Values == {None, "42", "MovieReview"}

\* the classes of what func may raise: Exception and its subclasses are caught by
\* "except Exception"; the other BaseException subclasses (KeyboardInterrupt,
\* SystemExit) are not
Classes == {"Exception", "BaseException"}

\* the messages of what func may raise
Messages ==
    { "(ThrottlingException) Too many requests",
      "An error occurred (ThrottlingException) when calling the Converse operation",
      "(ThrottlingException)",
      "ThrottlingException",
      "(ThrottlingException",
      "(throttlingexception) Too many requests",
      "(ValidationException) Malformed input",
      "" }

\* no exception
NoExc == [id |-> -1, cls |-> "", msg |-> ""]

\* the exception object raised by the call of func on attempt i
Exc(i, c, m) == [id |-> i, cls |-> c, msg |-> m]

\* nothing delivered yet
NoResult == [kind |-> "none", value |-> None, exc |-> NoExc]

\* how a call of func ends: it returns v, or it raises x
OpReturned(v) == [kind |-> "return", value |-> v, exc |-> NoExc]

OpRaised(x) == [kind |-> "raise", value |-> None, exc |-> x]

----------------------------------------------------------------------------
(* Pure helpers *)

\* str(e) of an exception built from one message argument
Str(x) == x.msg

\* Python's "sub in s" on strings
Contains(sub, s) ==
    \E i \in 1..(Len(s) - Len(sub) + 1) : SubSeq(s, i, i + Len(sub) - 1) = sub

\* mutant: the marker without its parentheses
MarkerNoParens == "ThrottlingException"

\* mutant: the marker without its closing parenthesis
MarkerUnclosed == "(ThrottlingException"

\* the literal of line 23
Marker == "(ThrottlingException)"

\* mutant: the budget test off by one (attempt < max_retries)
ShouldRetryOffByOne(x, a, n) == Contains(Marker, Str(x)) /\ a < n

\* mutant: every exception is retried while budget remains
ShouldRetryAny(x, a, n) == a < n - 1

\* mutant: a throttling exception is retried whatever the budget
ShouldRetryNoBudget(x, a, n) == Contains(Marker, Str(x))

\* the condition of the if of line 23
ShouldRetry(x, a, n) == Contains(Marker, Str(x)) /\ a < n - 1

\* mutant: a backoff that doubles (2, 4, 8, ...)
WaitTimeExponential(a) == 2 ^ (a + 1)

\* mutant: a backoff with a ceiling of 4 seconds
WaitTimeCapped(a) == IF (a + 1) * 2 > 4 THEN 4 ELSE (a + 1) * 2

\* wait_time = (attempt + 1) * 2
WaitTime(a) == (a + 1) * 2

\* mutant: the notice names the number of the retry, not the duration
NoticeRetryNumber(w) == "Rate limited. Waiting " \o ToString(w \div 2) \o " seconds..."

\* f"Rate limited. Waiting {wait_time} seconds..."
Notice(w) == "Rate limited. Waiting " \o ToString(w) \o " seconds..."

\* mutant: func's value is dropped (a wrapper without "return")
ReturnedNone(v) == [kind |-> "return", value |-> None, exc |-> NoExc]

\* mutant: func's value is wrapped
ReturnedWrapped(v) == [kind |-> "return", value |-> "[" \o v \o "]", exc |-> NoExc]

\* return func(*args, **kwargs): the caller gets func's value
Returned(v) == [kind |-> "return", value |-> v, exc |-> NoExc]

\* mutant: a synthetic error replaces the caught one
RaisedSynthetic(x) ==
    [kind |-> "raise", value |-> None,
     exc |-> [id |-> -1, cls |-> "Exception", msg |-> "Max retries exceeded"]]

\* raise e, and an exception that passes through uncaught
Raised(x) == [kind |-> "raise", value |-> None, exc |-> x]

----------------------------------------------------------------------------
(* One invocation of wrapper() *)

InitWith(S) ==
    /\ max_retries \in S
    /\ pc = "for"
    /\ it = 0
    /\ attempt = -1
    /\ e = NoExc
    /\ wait_time = 0
    /\ calls = << >>
    /\ printed = << >>
    /\ slept = << >>
    /\ log = << >>
    /\ result = NoResult

\* one invocation and nothing around it
Alone ==
    /\ self = 1
    /\ frames = << >>
    /\ ended = << >>
    /\ nesting = 1
    /\ pending = NoResult

\* main() does not run
NoMain ==
    /\ mpc = "none"
    /\ idx = 0
    /\ results = << >>
    /\ ran = << >>
    /\ api = << >>
    /\ summary = -1

\* the contract: max_retries is a positive integer
\* no UserProfile is being validated
NoProfile ==
    /\ user_id = ""
    /\ validated = NoResult

Init == InitWith(1..MaxRetries) /\ Alone /\ NoMain /\ NoProfile

\* mutant: the loop index advances by two
ForStepTwo ==
    /\ pc = "for"
    /\ IF it < max_retries
       THEN /\ attempt' = it
            /\ it' = it + 2
            /\ pc' = "try"
            /\ UNCHANGED <<result, log>>
       ELSE /\ pc' = "returned"
            /\ result' = Returned(None)
            /\ log' = Append(log, "return")
            /\ UNCHANGED <<attempt, it>>
    /\ UNCHANGED <<max_retries, e, wait_time, calls, printed, slept>>

\* mutant: a loop that makes its first attempt whatever max_retries is
ForAtLeastOnce ==
    /\ pc = "for"
    /\ IF it < max_retries \/ it = 0
       THEN /\ attempt' = it
            /\ it' = it + 1
            /\ pc' = "try"
            /\ UNCHANGED <<result, log>>
       ELSE /\ pc' = "returned"
            /\ result' = Returned(None)
            /\ log' = Append(log, "return")
            /\ UNCHANGED <<attempt, it>>
    /\ UNCHANGED <<max_retries, e, wait_time, calls, printed, slept>>

\* for attempt in range(max_retries): the next index, or the end of the loop and
\* of the function body (an implicit return None)
For ==
    /\ pc = "for"
    /\ IF it < max_retries
       THEN /\ attempt' = it
            /\ it' = it + 1
            /\ pc' = "try"
            /\ UNCHANGED <<result, log>>
       ELSE /\ pc' = "returned"
            /\ result' = Returned(None)
            /\ log' = Append(log, "return")
            /\ UNCHANGED <<attempt, it>>
    /\ UNCHANGED <<max_retries, e, wait_time, calls, printed, slept>>

\* try: func(*args, **kwargs) is called
Try ==
    /\ pc = "try"
    /\ pc' = "func"
    /\ log' = Append(log, "attempt")
    /\ UNCHANGED <<max_retries, it, attempt, e, wait_time, calls, printed, slept, result>>

\* func returns v: return func(*args, **kwargs)
FuncReturns(v) ==
    /\ pc = "func"
    /\ calls' = Append(calls, OpReturned(v))
    /\ result' = Returned(v)
    /\ log' = Append(log, "return")
    /\ pc' = "returned"
    /\ UNCHANGED <<max_retries, it, attempt, e, wait_time, printed, slept>>

\* func raises: "except Exception as e" catches an Exception, anything else
\* leaves wrapper() as it is
FuncRaises(c, m) ==
    /\ pc = "func"
    /\ calls' = Append(calls, OpRaised(Exc(attempt, c, m)))
    /\ IF c = "Exception"
       THEN /\ e' = Exc(attempt, c, m)
            /\ pc' = "except"
            /\ UNCHANGED <<result, log>>
       ELSE /\ result' = Raised(Exc(attempt, c, m))
            /\ log' = Append(log, "raise")
            /\ pc' = "raised"
            /\ UNCHANGED e
    /\ UNCHANGED <<max_retries, it, attempt, wait_time, printed, slept>>

\* mutant: a retry without the notice and the wait
ExceptNoWait ==
    /\ pc = "except"
    /\ IF ShouldRetry(e, attempt, max_retries)
       THEN /\ pc' = "for"
            /\ UNCHANGED <<result, log, wait_time>>
       ELSE /\ result' = Raised(e)
            /\ log' = Append(log, "raise")
            /\ pc' = "raised"
            /\ UNCHANGED wait_time
    /\ UNCHANGED <<max_retries, it, attempt, e, calls, printed, slept>>

\* the body of the except clause up to the print, or raise e
Except ==
    /\ pc = "except"
    /\ IF ShouldRetry(e, attempt, max_retries)
       THEN /\ wait_time' = WaitTime(attempt)
            /\ pc' = "print"
            /\ UNCHANGED <<result, log>>
       ELSE /\ result' = Raised(e)
            /\ log' = Append(log, "raise")
            /\ pc' = "raised"
            /\ UNCHANGED wait_time
    /\ UNCHANGED <<max_retries, it, attempt, e, calls, printed, slept>>

\* print(f"Rate limited. Waiting {wait_time} seconds...")
PrintNotice ==
    /\ pc = "print"
    /\ printed' = Append(printed, Notice(wait_time))
    /\ log' = Append(log, "notice")
    /\ pc' = "sleep"
    /\ UNCHANGED <<max_retries, it, attempt, e, wait_time, calls, slept, result>>

\* time.sleep(wait_time)
Sleep ==
    /\ pc = "sleep"
    /\ slept' = Append(slept, wait_time)
    /\ log' = Append(log, "wait")
    /\ pc' = "continue"
    /\ UNCHANGED <<max_retries, it, attempt, e, wait_time, calls, printed, result>>

\* continue
\* mutant: the loop takes the same index again
ContinueRewinds ==
    /\ pc = "continue"
    /\ pc' = "for"
    /\ it' = attempt
    /\ UNCHANGED <<max_retries, attempt, e, wait_time, calls, printed, slept, log, result>>

Continue ==
    /\ pc = "continue"
    /\ pc' = "for"
    /\ UNCHANGED <<max_retries, it, attempt, e, wait_time, calls, printed, slept, log, result>>

Next ==
    \/ For /\ UNCHANGED <<call_vars, main_vars, profile_vars>>
    \/ Try /\ UNCHANGED <<call_vars, main_vars, profile_vars>>
    \/ \E v \in Values : FuncReturns(v) /\ UNCHANGED <<call_vars, main_vars, profile_vars>>
    \/ \E c \in Classes, m \in Messages :
          FuncRaises(c, m) /\ UNCHANGED <<call_vars, main_vars, profile_vars>>
    \/ Except /\ UNCHANGED <<call_vars, main_vars, profile_vars>>
    \/ PrintNotice /\ UNCHANGED <<call_vars, main_vars, profile_vars>>
    \/ Sleep /\ UNCHANGED <<call_vars, main_vars, profile_vars>>
    \/ Continue /\ UNCHANGED <<call_vars, main_vars, profile_vars>>

Spec == Init /\ [][Next]_vars

\* every call of func and every wait ends, and the statements of wrapper() run
\* one after the other
SpecFair == Init /\ [][Next]_vars /\ WF_vars(Next)

\* a wrapper built with any integer, zero and negative ones included
InitAnyRetries ==
    InitWith((0 - MaxBelowZero)..MaxRetries) /\ Alone /\ NoMain /\ NoProfile

SpecAnyRetries == InitAnyRetries /\ [][Next]_vars

----------------------------------------------------------------------------
(* Several invocations of one wrapper: calls made one after the other, and  *)
(* calls of several threads, which the interpreter interleaves between the  *)
(* statements of wrapper()                                                   *)

\* the invocation that runs, as a record
Frame ==
    [id |-> self, max_retries |-> max_retries, pc |-> pc, it |-> it,
     attempt |-> attempt, e |-> e, wait_time |-> wait_time, calls |-> calls,
     printed |-> printed, slept |-> slept, log |-> log, result |-> result]

\* the invocation f runs
Resume(f) ==
    /\ self' = f.id
    /\ max_retries' = f.max_retries
    /\ pc' = f.pc
    /\ it' = f.it
    /\ attempt' = f.attempt
    /\ e' = f.e
    /\ wait_time' = f.wait_time
    /\ calls' = f.calls
    /\ printed' = f.printed
    /\ slept' = f.slept
    /\ log' = f.log
    /\ result' = f.result

\* mutant: the iterator of range(max_retries) is made once and shared by the calls
NewCallSharedIterator(i, n) ==
    [id |-> i, max_retries |-> n, pc |-> "for", it |-> it, attempt |-> it - 1,
     e |-> NoExc, wait_time |-> 0, calls |-> << >>, printed |-> << >>,
     slept |-> << >>, log |-> << >>, result |-> NoResult]

\* a call of wrapper(): new locals, a new iterator of range(max_retries), the
\* max_retries of the closure
NewCall(i, n) ==
    [id |-> i, max_retries |-> n, pc |-> "for", it |-> 0, attempt |-> -1,
     e |-> NoExc, wait_time |-> 0, calls |-> << >>, printed |-> << >>,
     slept |-> << >>, log |-> << >>, result |-> NoResult]

\* what func returns and raises where several invocations are followed
FewValues == {"42"}

FewMessages ==
    { "(ThrottlingException) Too many requests",
      "(ValidationException) Malformed input" }

\* the wrapped function is called once more: by the thread of this invocation
\* after it, or by another thread meanwhile
Call ==
    /\ Len(frames) + 1 < MaxCalls
    /\ frames' = Append(frames, Frame)
    /\ Resume(NewCall(Len(frames) + 2, max_retries))
    /\ UNCHANGED <<ended, nesting, pending, main_vars, profile_vars>>

\* the thread of another invocation that has not ended gets the interpreter
Switch(k) ==
    /\ k \in 1..Len(frames)
    /\ frames[k].pc \notin {"returned", "raised"}
    /\ frames' = [frames EXCEPT ![k] = Frame]
    /\ Resume(frames[k])
    /\ UNCHANGED <<ended, nesting, pending, main_vars, profile_vars>>

InitCalls == Init

NextCalls ==
    \/ For /\ UNCHANGED <<call_vars, main_vars, profile_vars>>
    \/ Try /\ UNCHANGED <<call_vars, main_vars, profile_vars>>
    \/ \E v \in FewValues : FuncReturns(v) /\ UNCHANGED <<call_vars, main_vars, profile_vars>>
    \/ \E m \in FewMessages :
          FuncRaises("Exception", m) /\ UNCHANGED <<call_vars, main_vars, profile_vars>>
    \/ Except /\ UNCHANGED <<call_vars, main_vars, profile_vars>>
    \/ PrintNotice /\ UNCHANGED <<call_vars, main_vars, profile_vars>>
    \/ Sleep /\ UNCHANGED <<call_vars, main_vars, profile_vars>>
    \/ Continue /\ UNCHANGED <<call_vars, main_vars, profile_vars>>
    \/ Call
    \/ \E k \in 1..MaxCalls : Switch(k)

SpecCalls == InitCalls /\ [][NextCalls]_vars

----------------------------------------------------------------------------
(* Two wrappers side by side: invocation 1 is of retry_with_backoff(func),  *)
(* invocation 2 of retry_with_backoff(func, 3)                               *)

InitDefault ==
    /\ InitWith({BuiltWith(<< >>)})
    /\ self = 1
    /\ frames = <<NewCall(2, BuiltWith(<<3>>))>>
    /\ ended = << >>
    /\ nesting = 1
    /\ pending = NoResult
    /\ NoMain
    /\ NoProfile

NextDefault ==
    \/ For /\ UNCHANGED <<call_vars, main_vars, profile_vars>>
    \/ Try /\ UNCHANGED <<call_vars, main_vars, profile_vars>>
    \/ \E v \in FewValues : FuncReturns(v) /\ UNCHANGED <<call_vars, main_vars, profile_vars>>
    \/ \E m \in FewMessages :
          FuncRaises("Exception", m) /\ UNCHANGED <<call_vars, main_vars, profile_vars>>
    \/ Except /\ UNCHANGED <<call_vars, main_vars, profile_vars>>
    \/ PrintNotice /\ UNCHANGED <<call_vars, main_vars, profile_vars>>
    \/ Sleep /\ UNCHANGED <<call_vars, main_vars, profile_vars>>
    \/ Continue /\ UNCHANGED <<call_vars, main_vars, profile_vars>>
    \/ Switch(1)

SpecDefault == InitDefault /\ [][NextDefault]_vars

----------------------------------------------------------------------------
(* Wrappers around wrappers: retry_with_backoff(retry_with_backoff(op)),    *)
(* and so on.  Invocation 1 is of the outermost wrapper; the func of        *)
(* wrapper number nesting is the operation itself.  frames is the stack of  *)
(* the wrappers that wait in their call of func.                             *)

InitNested ==
    /\ InitWith(1..MaxRetries)
    /\ self = 1
    /\ frames = << >>
    /\ ended = << >>
    /\ nesting \in 1..MaxDepth
    /\ pending = NoResult
    /\ NoMain
    /\ NoProfile

\* func is the wrapper inside: its wrapper() is called
Enter ==
    /\ pc = "func"
    /\ self < nesting
    /\ pending = NoResult
    /\ frames' = Append(frames, Frame)
    /\ Resume(NewCall(self + 1, max_retries))
    /\ UNCHANGED <<ended, nesting, pending, main_vars, profile_vars>>

\* the wrapper inside has returned or raised: control is back in the call of
\* func of the wrapper around it
Leave ==
    /\ pc \in {"returned", "raised"}
    /\ frames # << >>
    /\ pending' = result
    /\ ended' = Append(ended, Frame)
    /\ Resume(frames[Len(frames)])
    /\ frames' = SubSeq(frames, 1, Len(frames) - 1)
    /\ UNCHANGED <<nesting, main_vars, profile_vars>>

\* the call of func ends the way the wrapper inside ended
TakeReturn ==
    /\ pending.kind = "return"
    /\ FuncReturns(pending.value)
    /\ pending' = NoResult
    /\ UNCHANGED <<self, frames, ended, nesting, main_vars, profile_vars>>

TakeRaise ==
    /\ pending.kind = "raise"
    /\ FuncRaises(pending.exc.cls, pending.exc.msg)
    /\ pending' = NoResult
    /\ UNCHANGED <<self, frames, ended, nesting, main_vars, profile_vars>>

NextNested ==
    \/ For /\ UNCHANGED <<call_vars, main_vars, profile_vars>>
    \/ Try /\ UNCHANGED <<call_vars, main_vars, profile_vars>>
    \/ \E v \in Values :
          self = nesting /\ FuncReturns(v) /\ UNCHANGED <<call_vars, main_vars, profile_vars>>
    \/ \E c \in Classes, m \in FewMessages :
          self = nesting /\ FuncRaises(c, m) /\ UNCHANGED <<call_vars, main_vars, profile_vars>>
    \/ Except /\ UNCHANGED <<call_vars, main_vars, profile_vars>>
    \/ PrintNotice /\ UNCHANGED <<call_vars, main_vars, profile_vars>>
    \/ Sleep /\ UNCHANGED <<call_vars, main_vars, profile_vars>>
    \/ Continue /\ UNCHANGED <<call_vars, main_vars, profile_vars>>
    \/ Enter
    \/ Leave
    \/ TakeReturn
    \/ TakeRaise

SpecNested == InitNested /\ [][NextNested]_vars

----------------------------------------------------------------------------
(* main() of src/main.py and the decorated examples it runs.  Every example *)
(* is decorated with @retry_with_backoff, so the func of its wrapper is the *)
(* example's body: the set-up before its try block (client construction,    *)
(* PDF text extraction), then the model API call inside try/except.         *)

\* the names of main()'s list examples, in order
examples ==
    <<"Testing Dials and Parameters", "Basic Structured Extraction",
      "Few-Shot Classification", "Chain of Thought Reasoning",
      "Synthetic Data Generation", "ETL Data Processing",
      "Advanced Prompting with Flags", "Comparative Analysis">>

\* what the model API call of an example returns
ApiResults == {"response"}

\* an exception raised by the set-up or by the model API call
ApiExc(c, m) == [id |-> -1, cls |-> c, msg |-> m]

\* how the set-up of an example may end
SetupOutcomes ==
    {OpReturned("client")} \cup {OpRaised(ApiExc(c, m)) : c \in Classes, m \in FewMessages}

\* how the model API call may end
ApiOutcomes ==
    {OpReturned(v) : v \in ApiResults}
        \cup {OpRaised(ApiExc(c, m)) : c \in Classes, m \in FewMessages}

\* the model API call was not reached
NotCalled == NoResult

\* mutant: no except clause
CaughtNever(x) == FALSE

\* except Exception
Caught(x) == x.cls = "Exception"

\* mutant: an example without a try block of its own
ExampleBodyNoTry(setup, call) ==
    IF setup.kind = "raise" THEN OpRaised(setup.exc)
    ELSE IF call.kind = "return" THEN OpReturned(call.value)
    ELSE OpRaised(call.exc)

\* the body of a decorated example: an exception of the set-up leaves the
\* function; the result of the API call is returned; an Exception of the API
\* call is printed and None returned
ExampleBody(setup, call) ==
    IF setup.kind = "raise" THEN OpRaised(setup.exc)
    ELSE IF call.kind = "return" THEN OpReturned(call.value)
    ELSE IF Caught(call.exc) THEN OpReturned(None)
    ELSE OpRaised(call.exc)

\* how a run of the body may go: the API call is made when the set-up succeeds
Runs ==
    {<<setup, call>> \in SetupOutcomes \X (ApiOutcomes \cup {NotCalled}) :
        (setup.kind = "raise") <=> (call = NotCalled)}

\* mutant: a fresh dict for every entry
PutFresh(d, k, v) == [n \in {k} |-> v]

\* d[k] = v
Put(d, k, v) == [n \in DOMAIN d \cup {k} |-> IF n = k THEN v ELSE d[n]]

\* mutant: len(results)
SuccessesAll(d) == Cardinality(DOMAIN d)

\* sum(1 for r in results.values() if r is not None)
Successes(d) == Cardinality({n \in DOMAIN d : d[n] # None})

InitMain ==
    /\ max_retries = BuiltWith(<< >>)
    /\ pc = "none"
    /\ it = 0
    /\ attempt = -1
    /\ e = NoExc
    /\ wait_time = 0
    /\ calls = << >>
    /\ printed = << >>
    /\ slept = << >>
    /\ log = << >>
    /\ result = NoResult
    /\ Alone
    /\ mpc = "loop"
    /\ idx = 0
    /\ results = << >>
    /\ ran = << >>
    /\ api = << >>
    /\ summary = -1
    /\ NoProfile

\* for name, func in examples: the next example is called inside try, or the
\* loop is over
MainFor ==
    /\ mpc = "loop"
    /\ IF idx < Len(examples)
       THEN /\ idx' = idx + 1
            /\ ran' = Append(ran, examples[idx + 1])
            /\ api' = << >>
            /\ mpc' = "call"
            /\ Resume(NewCall(idx + 1, max_retries))
       ELSE /\ mpc' = "summary"
            /\ UNCHANGED <<wrapper_vars, self, idx, ran, api>>
    /\ UNCHANGED <<frames, ended, nesting, pending, results, summary, profile_vars>>

\* the body of the example runs and returns
ExampleReturns(setup, call) ==
    /\ ExampleBody(setup, call).kind = "return"
    /\ FuncReturns(ExampleBody(setup, call).value)
    /\ api' = Append(api, [setup |-> setup, call |-> call])
    /\ UNCHANGED <<call_vars, mpc, idx, results, ran, summary, profile_vars>>

\* the body of the example runs and raises
ExampleRaises(setup, call) ==
    /\ ExampleBody(setup, call).kind = "raise"
    /\ FuncRaises(ExampleBody(setup, call).exc.cls, ExampleBody(setup, call).exc.msg)
    /\ api' = Append(api, [setup |-> setup, call |-> call])
    /\ UNCHANGED <<call_vars, mpc, idx, results, ran, summary, profile_vars>>

\* result = func(); results[name] = result, or except Exception:
\* results[name] = None; anything else leaves main()
MainTakes ==
    /\ mpc = "call"
    /\ pc \in {"returned", "raised"}
    /\ IF result.kind = "return"
       THEN /\ results' = Put(results, examples[idx], result.value)
            /\ mpc' = "sleep"
       ELSE IF Caught(result.exc)
       THEN /\ results' = Put(results, examples[idx], None)
            /\ mpc' = "sleep"
       ELSE /\ mpc' = "aborted"
            /\ UNCHANGED results
    /\ UNCHANGED <<wrapper_vars, call_vars, idx, ran, api, summary, profile_vars>>

\* time.sleep(1)
MainSleep ==
    /\ mpc = "sleep"
    /\ mpc' = "loop"
    /\ UNCHANGED <<wrapper_vars, call_vars, idx, results, ran, api, summary, profile_vars>>

\* the summary is printed and results returned
Summary ==
    /\ mpc = "summary"
    /\ summary' = Successes(results)
    /\ mpc' = "done"
    /\ UNCHANGED <<wrapper_vars, call_vars, idx, results, ran, api, profile_vars>>

NextMain ==
    \/ MainFor
    \/ For /\ UNCHANGED <<call_vars, main_vars, profile_vars>>
    \/ Try /\ UNCHANGED <<call_vars, main_vars, profile_vars>>
    \/ \E r \in Runs : ExampleReturns(r[1], r[2])
    \/ \E r \in Runs : ExampleRaises(r[1], r[2])
    \/ Except /\ UNCHANGED <<call_vars, main_vars, profile_vars>>
    \/ PrintNotice /\ UNCHANGED <<call_vars, main_vars, profile_vars>>
    \/ Sleep /\ UNCHANGED <<call_vars, main_vars, profile_vars>>
    \/ Continue /\ UNCHANGED <<call_vars, main_vars, profile_vars>>
    \/ MainTakes
    \/ MainSleep
    \/ Summary

\* main() is sequential code: its next statement is executed
SpecMain == InitMain /\ [][NextMain]_vars /\ WF_vars(NextMain)

----------------------------------------------------------------------------
(* UserProfile.validate_user_id of src/task00_json_validation.py, the field *)
(* validator pydantic runs on the user_id string of a UserProfile.          *)

\* the longest freely chosen part of a user ID
MaxIdLen == 2

\* the length from which a user ID is refused
UserIdLimit == 32

\* a sample of characters: lowercase and uppercase letters, the dash, a digit,
\* an underscore
Alphabet == {"a", "z", "A", "-", "1", "_"}

\* the cased characters of the sample, as str.islower() classifies them
LowerCase == {"a", "z"}

UpperCase == {"A"}

\* c * n
RECURSIVE Repeat(_, _)
Repeat(c, n) == IF n = 0 THEN "" ELSE c \o Repeat(c, n - 1)

\* the strings over the sample of at most n characters
RECURSIVE Words(_)
Words(n) ==
    IF n = 0 THEN {""}
    ELSE Words(n - 1) \cup {w \o c : w \in Words(n - 1), c \in Alphabet}

\* the user IDs given to the validator: short ones, and ones around the limit
UserIds ==
    {w \o Repeat(c, n) : w \in Words(MaxIdLen), c \in {"a", "-"},
        n \in {0, UserIdLimit - 3, UserIdLimit - 2, UserIdLimit - 1}}

\* s.replace(old, new) for a one-character old
RECURSIVE replace(_, _, _)
replace(s, old, new) ==
    IF s = "" THEN ""
    ELSE (IF SubSeq(s, 1, 1) = old THEN new ELSE SubSeq(s, 1, 1))
            \o replace(SubSeq(s, 2, Len(s)), old, new)

\* s.islower(): there is a cased character and no cased character is uppercase
islower(s) ==
    /\ \E i \in 1..Len(s) : SubSeq(s, i, i) \in LowerCase \cup UpperCase
    /\ \A i \in 1..Len(s) : SubSeq(s, i, i) \notin UpperCase

ValueError(m) == [id |-> -1, cls |-> "ValueError", msg |-> m]

validate_user_id(v) ==
    IF Len(v) >= UserIdLimit
    THEN OpRaised(ValueError("User ID must be under 32 characters"))
    ELSE IF ~islower(replace(v, "-", ""))
    THEN OpRaised(ValueError("User ID must contain only lowercase letters and dashes"))
    ELSE OpReturned(v)

InitValidate ==
    /\ max_retries = BuiltWith(<< >>)
    /\ pc = "none"
    /\ it = 0
    /\ attempt = -1
    /\ e = NoExc
    /\ wait_time = 0
    /\ calls = << >>
    /\ printed = << >>
    /\ slept = << >>
    /\ log = << >>
    /\ result = NoResult
    /\ Alone
    /\ NoMain
    /\ user_id = ""
    /\ validated = NoResult

\* pydantic calls the validator with the user_id of the profile
Validate ==
    /\ validated = NoResult
    /\ validated' = validate_user_id(user_id)
    /\ UNCHANGED <<wrapper_vars, call_vars, main_vars, user_id>>

\* another UserProfile is built
NewProfile(u) ==
    /\ validated # NoResult
    /\ user_id' = u
    /\ validated' = NoResult
    /\ UNCHANGED <<wrapper_vars, call_vars, main_vars>>

NextValidate ==
    \/ Validate
    \/ \E u \in UserIds : NewProfile(u)

SpecValidate == InitValidate /\ [][NextValidate]_vars

----------------------------------------------------------------------------
(* Vocabulary of the properties *)

\* the messages of Messages in which the marker "(ThrottlingException)" occurs,
\* listed by hand
ThrottlingMessages ==
    { "(ThrottlingException) Too many requests",
      "An error occurred (ThrottlingException) when calling the Converse operation",
      "(ThrottlingException)" }

\* the call ended in a failure (an Exception) whose message holds the marker
IsThrottle(o) ==
    o.kind = "raise" /\ o.exc.cls = "Exception" /\ o.exc.msg \in ThrottlingMessages

\* the call ended in a failure whose message does not hold the marker
IsTerminalFailure(o) == o.kind = "raise" /\ o.exc.msg \notin ThrottlingMessages

IsSuccess(o) == o.kind = "return"

\* wrapper() has returned or raised
Terminated == pc \in {"returned", "raised"}

\* the first k calls of func were throttled
ThrottledUpTo(k) == \A i \in 1..k : IsThrottle(calls[i])

\* 2, 4, ..., 2k
LinearWaits(k) == [i \in 1..k |-> 2 * i]

\* the attempts and waits of the log, in order
AttemptsAndWaits == SelectSeq(log, LAMBDA x : x \in {"attempt", "wait"})

\* k attempts with one wait between each two of them
Alternating(k) ==
    [j \in 1..(2 * k - 1) |-> IF j % 2 = 1 THEN "attempt" ELSE "wait"]

\* how many of the first j entries of the log are tag
CountUpTo(tag, j) == Cardinality({i \in 1..j : log[i] = tag})

----------------------------------------------------------------------------
(* C1: an operation throttled on every attempt is attempted exactly          *)
(* max_retries times, with max_retries - 1 waits of 2, 4, ..., one between   *)
(* each two attempts, and the failure of the last attempt is raised.         *)
C1_BoundedRetries ==
    ThrottledUpTo(Len(calls)) =>
        /\ Len(calls) <= max_retries
        /\ Len(slept) <= max_retries - 1
        /\ \A j \in 1..Len(slept) : slept[j] = 2 * j
        /\ Terminated =>
              /\ Len(calls) = max_retries
              /\ slept = LinearWaits(max_retries - 1)
              /\ AttemptsAndWaits = Alternating(max_retries)
              /\ pc = "raised"
              /\ result = [kind |-> "raise", value |-> None,
                           exc |-> calls[max_retries].exc]

C1_Witness ==
    /\ Terminated
    /\ max_retries = 3
    /\ Len(calls) = 3
    /\ ThrottledUpTo(3)
    /\ slept = <<2, 4>>

(* C2: after k < max_retries throttled attempts and a success on attempt     *)
(* k + 1 the wrapper returns that value, after exactly k + 1 attempts and k   *)
(* waits of 2, 4, ..., 2k; throttled attempts with budget left never end the  *)
(* invocation.                                                                *)
C2_LateSuccess ==
    /\ \A k \in 0..(Len(calls) - 1) :
          (ThrottledUpTo(k) /\ IsSuccess(calls[k + 1])) =>
              /\ k < max_retries
              /\ Len(calls) = k + 1
              /\ pc = "returned"
              /\ result = [kind |-> "return", value |-> calls[k + 1].value,
                           exc |-> NoExc]
              /\ slept = LinearWaits(k)
              /\ Len(printed) = k
              /\ AttemptsAndWaits = Alternating(k + 1)
    /\ (Terminated /\ calls # << >> /\ IsThrottle(calls[Len(calls)])) =>
          Len(calls) = max_retries

C2_Witness ==
    /\ max_retries = 3
    /\ Len(calls) = 3
    /\ ThrottledUpTo(2)
    /\ calls[3] = OpReturned("42")
    /\ pc = "returned"
    /\ result.value = "42"
    /\ slept = <<2, 4>>

(* C3: a success on the first attempt is returned after exactly one attempt  *)
(* and no wait, whatever max_retries is.                                      *)
C3_SuccessShortCircuits ==
    (calls # << >> /\ IsSuccess(calls[1])) =>
        /\ Len(calls) = 1
        /\ slept = << >>
        /\ printed = << >>
        /\ log = <<"attempt", "return">>
        /\ pc = "returned"
        /\ result = [kind |-> "return", value |-> calls[1].value, exc |-> NoExc]

C3_Witness ==
    /\ max_retries > 1
    /\ calls = <<OpReturned("MovieReview")>>
    /\ pc = "returned"

(* C4: when the first attempt fails with a message without the marker, the   *)
(* wrapper makes that one attempt only, waits for nothing and raises that    *)
(* failure, whatever max_retries is.                                          *)
C4_TerminalFailureImmediate ==
    (calls # << >> /\ IsTerminalFailure(calls[1])) =>
        /\ Len(calls) = 1
        /\ slept = << >>
        /\ printed = << >>
        /\ pc \in {"except", "raised"}
        /\ pc = "except" => log = <<"attempt">>
        /\ pc = "raised" =>
              /\ log = <<"attempt", "raise">>
              /\ result = [kind |-> "raise", value |-> None, exc |-> calls[1].exc]

C4_Witness ==
    /\ max_retries > 1
    /\ Len(calls) = 1
    /\ calls[1].kind = "raise"
    /\ calls[1].exc.cls = "Exception"
    /\ calls[1].exc.msg = "(ThrottlingException"
    /\ pc = "raised"

(* C5: a failure is followed by a wait and another attempt only if its       *)
(* message holds "(ThrottlingException)", and, while budget remains, whenever *)
(* it does; a failure without the marker is never followed by a notice, a    *)
(* wait or an attempt.                                                        *)
C5_RetryableIffMarker ==
    /\ pc \in {"print", "sleep", "continue"} => IsThrottle(calls[Len(calls)])
    /\ \A i \in 1..Len(calls) :
          /\ i < Len(calls) => IsThrottle(calls[i])
          /\ (IsThrottle(calls[i]) /\ i < max_retries /\ i = Len(calls)) =>
                ~Terminated
          /\ IsTerminalFailure(calls[i]) =>
                /\ i = Len(calls)
                /\ pc \in {"except", "raised"}
                /\ Len(slept) = i - 1
                /\ Len(printed) = i - 1
                /\ CountUpTo("attempt", Len(log)) = i

C5_Witness ==
    /\ Len(calls) = 3
    /\ calls[1].exc.msg = "(ThrottlingException)"
    /\ calls[2].exc.msg =
          "An error occurred (ThrottlingException) when calling the Converse operation"
    /\ calls[3].kind = "raise"
    /\ calls[3].exc.cls = "Exception"
    /\ calls[3].exc.msg = "ThrottlingException"
    /\ max_retries = 4
    /\ pc = "raised"

(* C6: a failure without the marker on any attempt, also after throttled     *)
(* attempts and with budget left, is raised at once: no notice, wait or      *)
(* attempt follows it.                                                        *)
C6_TerminalAtAnyAttempt ==
    \A i \in 1..Len(calls) :
        IsTerminalFailure(calls[i]) =>
            /\ i = Len(calls)
            /\ calls[i].exc.id = i - 1
            /\ pc \in {"except", "raised"}
            /\ Len(slept) = i - 1
            /\ Len(printed) = i - 1
            /\ pc = "except" => log[Len(log)] = "attempt"
            /\ pc = "raised" =>
                  /\ log[Len(log)] = "raise"
                  /\ log[Len(log) - 1] = "attempt"
                  /\ result = [kind |-> "raise", value |-> None, exc |-> calls[i].exc]

C6_Witness ==
    /\ max_retries = 4
    /\ Len(calls) = 2
    /\ IsThrottle(calls[1])
    /\ IsTerminalFailure(calls[2])
    /\ calls[2].exc.cls = "Exception"
    /\ pc = "raised"
    /\ slept = <<2>>

(* C7: a wrapper that ends in failure raises the exception object of its     *)
(* last attempt, not an earlier or a made-up one, and a failed last attempt   *)
(* is never turned into a return.                                             *)
C7_LastFailurePropagates ==
    /\ pc = "raised" =>
          /\ calls # << >>
          /\ calls[Len(calls)].kind = "raise"
          /\ result = [kind |-> "raise", value |-> None,
                       exc |-> calls[Len(calls)].exc]
          /\ result.exc.id = Len(calls) - 1
    /\ (Terminated /\ calls # << >> /\ calls[Len(calls)].kind = "raise") =>
          pc = "raised"
    /\ (pc = "except" /\ calls # << >>) => e = calls[Len(calls)].exc

C7_Witness ==
    /\ pc = "raised"
    /\ max_retries = 3
    /\ Len(calls) = 3
    /\ ThrottledUpTo(3)
    /\ calls[1].exc.msg # calls[3].exc.msg
    /\ calls[2].exc.msg # calls[3].exc.msg

(* C8: a wrapper that ends in success returns the value of the attempt that  *)
(* succeeded, unchanged, and that attempt is the last one made.               *)
C8_SuccessValueUnchanged ==
    /\ \A i \in 1..Len(calls) :
          IsSuccess(calls[i]) =>
              /\ i = Len(calls)
              /\ pc = "returned"
              /\ result = [kind |-> "return", value |-> calls[i].value, exc |-> NoExc]
              /\ log[Len(log)] = "return"
              /\ CountUpTo("attempt", Len(log)) = i
    /\ pc = "returned" => (calls # << >> /\ IsSuccess(calls[Len(calls)]))

C8_Witness ==
    /\ pc = "returned"
    /\ Len(calls) = 2
    /\ IsThrottle(calls[1])
    /\ calls[2] = OpReturned("MovieReview")
    /\ result.value = "MovieReview"

(* C9: every wait comes directly after the notice that follows a throttled   *)
(* attempt which is not the last one allowed, and is followed by another      *)
(* attempt; none follows the final attempt, a terminal failure or a success.  *)
C9_WaitsOnlyBetweenAttempts ==
    \A j \in 1..Len(log) :
        log[j] = "wait" =>
            LET k == CountUpTo("attempt", j) IN
            /\ j >= 3
            /\ log[j - 1] = "notice"
            /\ log[j - 2] = "attempt"
            /\ CountUpTo("wait", j) = k
            /\ k <= Len(calls)
            /\ IsThrottle(calls[k])
            /\ k - 1 < max_retries - 1
            /\ j < Len(log) => log[j + 1] = "attempt"
            /\ j = Len(log) =>
                  /\ pc \in {"continue", "for", "try"}
                  /\ it < max_retries \/ pc = "try"

C9_Witness ==
    /\ Terminated
    /\ max_retries = 3
    /\ CountUpTo("wait", Len(log)) = 2
    /\ CountUpTo("attempt", Len(log)) = 3

(* C10: an invocation that has ended has delivered exactly one outcome, a    *)
(* returned success or a raised failure, as the last thing it did; one that   *)
(* has not ended has delivered none and can take a step.                      *)
C10_ExactlyOneOutcome ==
    /\ (pc = "returned") <=> (result.kind = "return")
    /\ (pc = "raised") <=> (result.kind = "raise")
    /\ (~Terminated) <=> (result = NoResult)
    /\ CountUpTo("return", Len(log)) + CountUpTo("raise", Len(log))
          = IF Terminated THEN 1 ELSE 0
    /\ Terminated =>
          /\ log[Len(log)] = result.kind
          /\ ~ENABLED Next
          /\ calls # << >>
          /\ calls[Len(calls)].kind = result.kind
          /\ Len(slept) = Len(calls) - 1
          /\ Len(printed) = Len(calls) - 1
    /\ ~Terminated => ENABLED Next

C10_Witness ==
    /\ Terminated
    /\ Len(calls) = max_retries
    /\ max_retries >= 2
    /\ result.kind = "return"

(* C11: the attempt index stays in [0, max_retries), starts at 0 and grows   *)
(* by exactly 1 from one attempt to the next, so func is never called more   *)
(* than max_retries times.                                                    *)
C11_AttemptIndexInRange ==
    LET started == CountUpTo("attempt", Len(log)) IN
    /\ (it = 0) <=> (attempt = -1)
    /\ it = 0 => pc = "for"
    /\ it > 0 => attempt \in 0..(max_retries - 1)
    /\ attempt = it - 1
    /\ started = IF pc = "try" THEN attempt ELSE attempt + 1
    /\ started <= max_retries
    /\ Len(calls) <= max_retries
    /\ \A i \in 1..Len(calls) : calls[i].kind = "raise" => calls[i].exc.id = i - 1

C11_Witness ==
    /\ max_retries = 4
    /\ attempt = 3
    /\ Len(calls) = 4
    /\ calls[4].exc.id = 3

----------------------------------------------------------------------------
(* The state machine of the specification, as a view of the wrapper's state  *)

\* ATTEMPTING(i)
ATTEMPTING(i) == <<"ATTEMPTING", i>>

SUCCEEDED == <<"SUCCEEDED", -1>>

FAILED_TERMINAL == <<"FAILED_TERMINAL", -1>>

FAILED_EXHAUSTED == <<"FAILED_EXHAUSTED", -1>>

\* the state of the specification's machine the wrapper is in: the attempt that
\* is being made or, once the backoff wait is over, the attempt that comes next
Machine ==
    CASE pc = "returned" -> SUCCEEDED
      [] pc = "raised" ->
            IF /\ calls # << >>
               /\ IsThrottle(calls[Len(calls)])
               /\ Len(calls) = max_retries
            THEN FAILED_EXHAUSTED
            ELSE FAILED_TERMINAL
      [] pc = "for" -> ATTEMPTING(it)
      [] OTHER -> ATTEMPTING(attempt)

\* one step of the specification's machine, with what func did and what the
\* wrapper waited for in that step
MachineStep ==
    LET last == calls'[Len(calls')] IN
    \/ Machine' = Machine
    \/ \E i \in 0..(max_retries - 1) :
          /\ Machine = ATTEMPTING(i)
          /\ \/ /\ Machine' = SUCCEEDED
                /\ Len(calls') = i + 1
                /\ IsSuccess(last)
                /\ slept' = slept
             \/ /\ Machine' = FAILED_TERMINAL
                /\ Len(calls') = i + 1
                /\ last.kind = "raise"
                /\ ~IsThrottle(last)
                /\ slept' = slept
             \/ /\ Machine' = ATTEMPTING(i + 1)
                /\ i < max_retries - 1
                /\ Len(calls') = i + 1
                /\ IsThrottle(last)
                /\ Len(slept') = i + 1
             \/ /\ Machine' = FAILED_EXHAUSTED
                /\ i = max_retries - 1
                /\ Len(calls') = i + 1
                /\ IsThrottle(last)
                /\ slept' = slept

(* C12: the wrapper starts in ATTEMPTING(0) and every step it takes is a     *)
(* step of the specification's machine or leaves the machine's state as it    *)
(* is; SUCCEEDED, FAILED_TERMINAL and FAILED_EXHAUSTED are left by no step.    *)
C12_RefinesStateMachine ==
    /\ Machine = ATTEMPTING(0)
    /\ [][MachineStep /\ ~Terminated]_vars

C12_Witness ==
    /\ Machine = FAILED_EXHAUSTED
    /\ max_retries = 3
    /\ Len(slept) = 2

NoticeText ==
    [w \in {2, 4, 6, 8, 10, 12} |->
        CASE w = 2 -> "Rate limited. Waiting 2 seconds..."
          [] w = 4 -> "Rate limited. Waiting 4 seconds..."
          [] w = 6 -> "Rate limited. Waiting 6 seconds..."
          [] w = 8 -> "Rate limited. Waiting 8 seconds..."
          [] w = 10 -> "Rate limited. Waiting 10 seconds..."
          [] w = 12 -> "Rate limited. Waiting 12 seconds..."]

\* the notices and waits of the log, in order
NoticesAndWaits == SelectSeq(log, LAMBDA x : x \in {"notice", "wait"})

(* C14: notices and waits come in pairs: each wait directly follows the one  *)
(* notice that names its duration, each notice is directly followed by its    *)
(* wait, so the two counts are equal except between a notice and its wait,    *)
(* and at the end both are the number of attempts minus 1; printing the       *)
(* notice changes nothing of the wrapper's state but its position.            *)
C14_NoticePerWait ==
    /\ [](/\ Len(printed) = Len(slept) + (IF pc = "sleep" THEN 1 ELSE 0)
          /\ Len(printed) = CountUpTo("notice", Len(log))
          /\ Len(slept) = CountUpTo("wait", Len(log))
          /\ \A j \in 1..Len(slept) : printed[j] = NoticeText[slept[j]]
          /\ pc = "sleep" => printed[Len(printed)] = NoticeText[wait_time]
          /\ \A j \in 1..Len(log) :
                /\ log[j] = "wait" => (j > 1 /\ log[j - 1] = "notice")
                /\ log[j] = "notice" =>
                      IF j < Len(log) THEN log[j + 1] = "wait" ELSE pc = "sleep"
          /\ Terminated =>
                /\ Len(printed) = Len(calls) - 1
                /\ Len(slept) = Len(calls) - 1)
    /\ [][pc = "print" =>
            /\ pc' = "sleep"
            /\ UNCHANGED <<max_retries, it, attempt, e, wait_time, calls, slept, result>>]_vars

C14_Witness ==
    /\ Terminated
    /\ printed = <<"Rate limited. Waiting 2 seconds...",
                   "Rate limited. Waiting 4 seconds...",
                   "Rate limited. Waiting 6 seconds...">>
    /\ slept = <<2, 4, 6>>

(* C15: at most one call of func is in progress, and a further attempt is    *)
(* started only when the one before has ended in a throttling failure and     *)
(* the wait after it is over.                                                 *)
C15_AttemptsSerialized ==
    LET started == CountUpTo("attempt", Len(log)) IN
    /\ started - Len(calls) = IF pc = "func" THEN 1 ELSE 0
    /\ pc \in {"try", "func"} =>
          /\ Len(calls) = attempt
          /\ Len(slept) = attempt
          /\ ThrottledUpTo(attempt)
    /\ \A j \in 2..Len(log) :
          log[j] = "attempt" => (j > 3 /\ log[j - 1] = "wait" /\ log[j - 3] = "attempt")

C15_Witness ==
    /\ pc = "func"
    /\ attempt = 2
    /\ Len(calls) = 2
    /\ slept = <<2, 4>>

----------------------------------------------------------------------------
\* every invocation there is: the running one and the others
Invocations == {Frame} \cup {frames[k] : k \in 1..Len(frames)}

\* the invocation f has returned or raised
Ended(f) == f.pc \in {"returned", "raised"}

\* f's attempts, waits and outcome are those its own calls of func determine,
\* counted from attempt 0, with a first wait of 2 and the full budget
OnItsOwn(f) ==
    LET n == Len(f.calls) IN
    /\ f.attempt = f.it - 1
    /\ n <= f.max_retries
    /\ n = IF f.pc \in {"try", "func"} THEN f.it - 1 ELSE f.it
    /\ \A i \in 1..n : f.calls[i].kind = "raise" => f.calls[i].exc.id = i - 1
    /\ \A j \in 1..Len(f.slept) : f.slept[j] = 2 * j /\ IsThrottle(f.calls[j])
    /\ Len(f.slept) = IF f.pc \in {"continue", "for", "try", "func"} THEN n ELSE n - 1
    /\ Ended(f) =>
          /\ n >= 1
          /\ IsThrottle(f.calls[n]) => n = f.max_retries
          /\ f.result.kind = f.calls[n].kind
          /\ f.result.value = f.calls[n].value
          /\ f.result.exc = f.calls[n].exc

(* C16: every invocation of the wrapped function starts at attempt 0 with    *)
(* the whole budget and a first wait of 2, and its attempts, waits and       *)
(* outcome follow from its own calls of func, whatever the invocations       *)
(* before it or interleaved with it did.                                      *)
C16_InvocationsIndependent ==
    /\ \A f \in Invocations : OnItsOwn(f) /\ f.max_retries = max_retries
    /\ Cardinality({f.id : f \in Invocations}) = Len(frames) + 1

C16_Witness ==
    /\ max_retries = 3
    /\ self = 2
    /\ Len(frames) = 1
    /\ frames[1].pc = "raised"
    /\ Len(frames[1].calls) = 3
    /\ IsThrottle(frames[1].calls[3])
    /\ pc = "returned"
    /\ slept = <<2, 4>>

----------------------------------------------------------------------------
\* the invocation numbered i
Invocation(i) == CHOOSE f \in Invocations : f.id = i

\* s is a proper prefix of t
ProperPrefix(s, t) == Len(s) < Len(t) /\ SubSeq(t, 1, Len(s)) = s

\* f and g are in the same state: same locals, history and outcome
SameState(f, g) ==
    [f EXCEPT !.id = 0, !.max_retries = 0] = [g EXCEPT !.id = 0, !.max_retries = 0]

(* C19: given the same outcomes of func, the wrapper built without           *)
(* max_retries and the wrapper built with max_retries = 3 are in the same     *)
(* state at the same statement, and neither ends while the other goes on:     *)
(* same attempts, waits, notices and outcome.                                  *)
C19_DefaultIsThree ==
    LET a == Invocation(1)
        b == Invocation(2)
    IN
    /\ (a.calls = b.calls /\ a.pc = b.pc) => SameState(a, b)
    /\ (Ended(a) /\ Ended(b) /\ a.calls = b.calls) =>
          /\ a.slept = b.slept
          /\ a.printed = b.printed
          /\ a.log = b.log
          /\ a.result = b.result
    /\ Ended(a) => ~ProperPrefix(a.calls, b.calls)
    /\ Ended(b) => ~ProperPrefix(b.calls, a.calls)

C19_Witness ==
    LET a == Invocation(1)
        b == Invocation(2)
    IN
    /\ Ended(a)
    /\ Ended(b)
    /\ a.calls = b.calls
    /\ Len(a.calls) = 3
    /\ a.result.kind = "raise"
    /\ IsThrottle(a.calls[3])
    /\ a.slept = <<2, 4>>

----------------------------------------------------------------------------
\* every invocation of a nest of wrappers, the ended ones first
Nest == ended \o frames \o <<Frame>>

\* the invocations of the innermost wrapper, whose func is the operation
Innermost == SelectSeq(Nest, LAMBDA f : f.id = nesting)

\* the invocations that have called func
Calling == SelectSeq(Nest, LAMBDA f : f.calls # << >>)

(* C18: when the operation succeeds on its first call, a nest of 1, 2, 3,    *)
(* ... wrappers calls it that once, no wrapper waits or prints a notice, and  *)
(* every wrapper, the outermost too, returns the operation's value.           *)
C18_WrappingIdempotent ==
    (Innermost # << >> /\ Innermost[1].calls # << >>
        /\ IsSuccess(Innermost[1].calls[1])) =>
        LET v == Innermost[1].calls[1].value IN
        /\ Len(Innermost) = 1
        /\ \A k \in 1..Len(Nest) :
              /\ Len(Nest[k].calls) <= 1
              /\ Nest[k].slept = << >>
              /\ Nest[k].printed = << >>
              /\ Nest[k].calls # << >> =>
                    /\ Nest[k].calls[1] = [kind |-> "return", value |-> v, exc |-> NoExc]
                    /\ Nest[k].pc = "returned"
                    /\ Nest[k].result = [kind |-> "return", value |-> v, exc |-> NoExc]
        /\ Len(Nest) = nesting
        /\ pending \in {NoResult, [kind |-> "return", value |-> v, exc |-> NoExc]}

C18_Witness ==
    /\ nesting = 3
    /\ max_retries = 3
    /\ self = 1
    /\ pc = "returned"
    /\ result.value = "MovieReview"
    /\ Len(ended) = 2
    /\ ended[1].id = 3
    /\ ended[1].calls = <<OpReturned("MovieReview")>>

----------------------------------------------------------------------------
\* the model API call of the k-th run of the example's body was throttled
ApiThrottled(k) == api[k].call # NotCalled /\ IsThrottle(api[k].call)

(* C17: when the model API call made inside a decorated example fails with  *)
(* a throttling error (an Exception whose message holds                     *)
(* "(ThrottlingException)"), the example is retried after a backoff wait,   *)
(* up to max_retries attempts: a throttled API call of run k < max_retries  *)
(* is never the last run of the example, and the wait of 2k seconds comes   *)
(* before run k + 1.                                                        *)
C17_ThrottledApiCallRetried ==
    \A k \in 1..Len(api) :
        (ApiThrottled(k) /\ k < max_retries) =>
            /\ ~(Terminated /\ Len(api) = k)
            /\ (Len(api) > k => (Len(slept) >= k /\ slept[k] = 2 * k))

\* the names of the examples main() has called, then those it has an entry for
Called(k) == [i \in 1..k |-> examples[i]]

Recorded(k) == {examples[i] : i \in 1..k}

(* C20: main() calls the eight examples once each in the listed order; an   *)
(* example that raises an Exception gets the entry None and the loop goes   *)
(* on; main() leaves the loop early only on an exception that is not an     *)
(* Exception; otherwise it reaches the summary with all eight called and    *)
(* returns; after an example has raised an Exception the next example is    *)
(* called.                                                                  *)
C20_MainRunsAllExamples ==
    /\ [](/\ idx = Len(ran)
          /\ ran = Called(idx)
          /\ DOMAIN results =
                Recorded(IF mpc \in {"call", "aborted"} THEN idx - 1 ELSE idx)
          /\ (mpc \in {"summary", "done"} => ran = examples)
          /\ (mpc = "aborted" =>
                (result.kind = "raise" /\ result.exc.cls = "BaseException"))
          /\ ((mpc = "sleep" /\ result.kind = "raise") =>
                (result.exc.cls = "Exception" /\ results[examples[idx]] = None)))
    /\ [][ran' # ran => (mpc = "loop" /\ mpc' = "call"
                          /\ ran' = Append(ran, examples[Len(ran) + 1]))]_vars
    /\ <>(mpc \in {"done", "aborted"})
    /\ \A i \in 1..(Len(examples) - 1) :
          (mpc = "call" /\ idx = i /\ result.kind = "raise"
              /\ result.exc.cls = "Exception") ~> (mpc = "call" /\ idx = i + 1)

\* main() has returned after the first and the last example raised an
\* Exception and the others came back with a response
C20_Witness ==
    /\ mpc = "done"
    /\ ran = examples
    /\ result.kind = "raise"
    /\ result.exc.cls = "Exception"
    /\ results[examples[1]] = None
    /\ results[examples[Len(examples)]] = None
    /\ \A i \in 2..(Len(examples) - 1) : results[examples[i]] \in ApiResults

----------------------------------------------------------------------------
\* the names of all examples
Names == {examples[i] : i \in 1..Len(examples)}

(* C21: when main() returns, results has one entry for each of the eight    *)
(* example names; the entry written for an example is what its call         *)
(* returned, or None when the call raised an Exception; an entry once       *)
(* written is never changed nor removed.                                    *)
C21_OneEntryPerExample ==
    /\ [](mpc = "done" => (DOMAIN results = Names /\ Cardinality(DOMAIN results) = 8))
    /\ [][(mpc = "call" /\ mpc' = "sleep") =>
            /\ examples[idx] \notin DOMAIN results
            /\ DOMAIN results' = DOMAIN results \cup {examples[idx]}
            /\ results'[examples[idx]] =
                  (IF result.kind = "return" THEN result.value ELSE "None")
            /\ (result.kind = "raise" => result.exc.cls = "Exception")]_vars
    /\ [][\A n \in DOMAIN results :
            n \in DOMAIN results' /\ results'[n] = results[n]]_vars

\* main() has returned with the entry of the first example a response, that
\* of the second None, and the last example returned normally
C21_Witness ==
    /\ mpc = "done"
    /\ DOMAIN results = Names
    /\ results[examples[1]] \in ApiResults
    /\ results[examples[2]] = None
    /\ result.kind = "return"

----------------------------------------------------------------------------
\* the last run of the current example's body got a response from its model call
LastCallSucceeded ==
    /\ api # << >>
    /\ api[Len(api)].setup.kind = "return"
    /\ api[Len(api)].call.kind = "return"

----------------------------------------------------------------------------
\* the characters of s
Chars(s) == {SubSeq(s, i, i) : i \in 1..Len(s)}

(* C23: validate_user_id accepts a user ID if and only if it is under 32    *)
(* characters long and contains only lowercase letters and dashes; any      *)
(* other ID is rejected with a ValueError; an accepted ID is returned       *)
(* unchanged.                                                               *)
C23_AcceptsIffLowercaseAndDashes ==
    validated # NoResult =>
        /\ (validated.kind = "return") <=>
                (Len(user_id) < 32 /\ Chars(user_id) \subseteq {"a", "z", "-"})
        /\ (validated.kind = "raise" => validated.exc.cls = "ValueError")
        /\ (validated.kind = "return" => validated.value = user_id)

----------------------------------------------------------------------------
(* C24: when every call of the operation and every wait ends, an invocation *)
(* of the wrapper ends, in SUCCEEDED, FAILED_TERMINAL or FAILED_EXHAUSTED,  *)
(* after at most max_retries attempts and at most max_retries - 1 waits,    *)
(* also when every attempt is throttled.                                    *)
C24_Terminates ==
    /\ <>Terminated
    /\ [](/\ Len(calls) <= max_retries
          /\ Len(slept) <= max_retries - 1
          /\ CountUpTo("attempt", Len(log)) <= max_retries
          /\ CountUpTo("wait", Len(log)) <= max_retries - 1)
    /\ [](Terminated =>
            /\ Machine \in {SUCCEEDED, FAILED_TERMINAL, FAILED_EXHAUSTED}
            /\ calls # << >>
            /\ (Machine = SUCCEEDED) <=> IsSuccess(calls[Len(calls)])
            /\ (Machine = FAILED_EXHAUSTED) <=>
                  (ThrottledUpTo(Len(calls)) /\ Len(calls) = max_retries))
    /\ [](ThrottledUpTo(Len(calls)) => <>(Terminated \/ ~ThrottledUpTo(Len(calls))))

\* an invocation with the largest budget has ended after every attempt was
\* throttled
C24_Witness ==
    /\ Terminated
    /\ Machine = FAILED_EXHAUSTED
    /\ max_retries = 4
    /\ Len(calls) = 4
    /\ Len(slept) = 3
    /\ ThrottledUpTo(4)

----------------------------------------------------------------------------
\* the model API call of the k-th run of the example's body raised an Exception
ApiFailed(k) ==
    /\ api[k].call # NotCalled
    /\ api[k].call.kind = "raise"
    /\ api[k].call.exc.cls = "Exception"

(* C25: an Exception raised by the model API call of a decorated example,   *)
(* throttling or not, does not leave the example: the wrapper sees that run *)
(* of func return None, returns None itself and neither waits nor runs the  *)
(* example again; it is the first attempt when the set-up did not fail      *)
(* before.  An Exception the wrapper does see was raised by the set-up      *)
(* before the try block.                                                    *)
C25_ExamplesSwallowApiErrors ==
    /\ Len(api) = Len(calls)
    /\ \A k \in 1..Len(api) :
          /\ ApiFailed(k) =>
                /\ calls[k] = [kind |-> "return", value |-> "None", exc |-> NoExc]
                /\ k = Len(api)
                /\ pc = "returned"
                /\ result = [kind |-> "return", value |-> "None", exc |-> NoExc]
                /\ Len(slept) = k - 1
                /\ Len(printed) = k - 1
                /\ \A j \in 1..(k - 1) : api[j].setup.kind = "raise"
          /\ (calls[k].kind = "raise" /\ calls[k].exc.cls = "Exception") =>
                /\ api[k].call = NotCalled
                /\ api[k].setup.kind = "raise"
                /\ api[k].setup.exc.cls = "Exception"
                /\ api[k].setup.exc.msg = calls[k].exc.msg

\* the wrapper of the second example has returned None after one attempt
\* whose model API call was throttled
C25_Witness ==
    /\ mpc = "call"
    /\ idx = 2
    /\ pc = "returned"
    /\ Len(api) = 1
    /\ ApiThrottled(1)
    /\ result.value = "None"
    /\ slept = << >>

----------------------------------------------------------------------------
(* C26: a wrapper built with max_retries <= 0 never calls the operation,    *)
(* never waits, raises nothing and returns None; with max_retries >= 1 an   *)
(* invocation that has ended has made at least one attempt and delivers the *)
(* outcome of its last attempt.                                             *)
C26_NoAttemptWithoutBudget ==
    /\ max_retries <= 0 =>
          /\ calls = << >>
          /\ slept = << >>
          /\ printed = << >>
          /\ CountUpTo("attempt", Len(log)) = 0
          /\ pc \in {"for", "returned"}
          /\ (pc = "for" => (result = NoResult /\ ENABLED Next))
          /\ (pc = "returned" =>
                result = [kind |-> "return", value |-> "None", exc |-> NoExc])
    /\ (max_retries >= 1 /\ Terminated) =>
          /\ Len(calls) >= 1
          /\ result.kind = calls[Len(calls)].kind
          /\ (result.kind = "return" => result.value = calls[Len(calls)].value)
          /\ (result.kind = "raise" => result.exc = calls[Len(calls)].exc)

\* a wrapper built with a negative max_retries has returned
C26_Witness ==
    /\ max_retries < 0
    /\ pc = "returned"
    /\ result.value = "None"
    /\ calls = << >>

====
